---- MODULE Spec2Model ----
(***************************************************************************)
(* Model of the Playdate extension (src/src/lib.rs): SDK detection, the    *)
(* language-server and type-definition resolvers with their two caches,    *)
(* the workspace configuration and the debug-adapter entry points.         *)
(*                                                                         *)
(* Rust Strings are TLA+ strings; Option<T> is <<>> (None) or <<v>>        *)
(* (Some(v)); Result<T, String> is [ok |-> TRUE, val |-> v] or             *)
(* [ok |-> FALSE, val |-> message].                                        *)
(***************************************************************************)
EXTENDS Integers, Sequences, FiniteSets, TLC

VARIABLES
    os,                  \* current_platform().0, fixed for the process
    arch,                \* current_platform().1, fixed for the process
    cached_binary_path,  \* PlaydateExtension.cached_binary_path
    cached_luacats_path, \* PlaydateExtension.cached_luacats_path
    op,                  \* the entry point the host called last
    args,                \* the arguments of that call
    result,              \* what that call returned
    io,                  \* the host functions that call invoked, in order
    lls_downloads,       \* outcome of every download_file of the language server
    first_ok,            \* path of the first successful language_server_binary_path
    first_resolved       \* the same, among calls that did not find the tool on PATH

vars == <<os, arch, cached_binary_path, cached_luacats_path, op, args, result, io,
          lls_downloads, first_ok, first_resolved>>

----------------------------------------------------------------------------
(* Option and Result *)

None == <<>>
Some(v) == <<v>>
IsSome(o) == o # <<>>
Unwrap(o) == o[1]
Ok(v) == [ok |-> TRUE, val |-> v]
Err(m) == [ok |-> FALSE, val |-> m]

----------------------------------------------------------------------------
(* Strings *)

\* str::contains
Contains(s, p) ==
    \E i \in 1..(Len(s) - Len(p) + 1) : SubSeq(s, i, i + Len(p) - 1) = p

StartsWith(s, p) == Len(p) <= Len(s) /\ SubSeq(s, 1, Len(p)) = p

\* str::replace: every non-overlapping occurrence of pat, left to right
RECURSIVE Replace(_, _, _)
Replace(s, pat, rep) ==
    IF s = "" \/ pat = "" THEN s
    ELSE IF StartsWith(s, pat)
         THEN rep \o Replace(SubSeq(s, Len(pat) + 1, Len(s)), pat, rep)
         ELSE SubSeq(s, 1, 1) \o Replace(SubSeq(s, 2, Len(s)), pat, rep)

IsWhitespace(c) == c \in {" ", "\n", "\t", "\r"}

\* str::trim
RECURSIVE Trim(_)
Trim(s) ==
    IF s = "" THEN s
    ELSE IF IsWhitespace(SubSeq(s, 1, 1)) THEN Trim(SubSeq(s, 2, Len(s)))
    ELSE IF IsWhitespace(SubSeq(s, Len(s), Len(s))) THEN Trim(SubSeq(s, 1, Len(s) - 1))
    ELSE s

\* Path::join of a relative component
PathJoin(base, rel) ==
    IF base = "" THEN rel
    ELSE IF SubSeq(base, Len(base), Len(base)) = "/" THEN base \o rel
    ELSE base \o "/" \o rel

----------------------------------------------------------------------------
(* Platform *)

OsSet == {"Mac", "Linux", "Windows"}
ArchSet == {"Aarch64", "X8664", "X86"}

ADAPTER_NAME == "Playdate"
LSP_SERVER_ID == "playdate-lua-language-server"

----------------------------------------------------------------------------
(* detect_sdk_path and get_simulator_path.  shell_env is the list of       *)
(* (key, value) pairs of worktree.shell_env().                             *)

\* the first non-empty PLAYDATE_SDK_PATH entry, in list order
SdkOverrideIdx(shell_env) ==
    {i \in 1..Len(shell_env) :
        shell_env[i][1] = "PLAYDATE_SDK_PATH" /\ shell_env[i][2] # ""}

\* the first HOME or USERPROFILE entry, in list order
HomeIdx(shell_env) ==
    {i \in 1..Len(shell_env) : shell_env[i][1] \in {"HOME", "USERPROFILE"}}

MinOf(S) == CHOOSE i \in S : \A j \in S : i <= j

home_of(shell_env) ==
    IF HomeIdx(shell_env) = {} THEN ""
    ELSE shell_env[MinOf(HomeIdx(shell_env))][2]

sdk_suffix(o) ==
    CASE o = "Mac" -> "/Developer/PlaydateSDK"
      [] o = "Linux" -> "/.local/share/playdate-sdk"
      [] o = "Windows" -> "\\Documents\\PlaydateSDK"

detect_sdk_path(shell_env, o) ==
    IF SdkOverrideIdx(shell_env) # {}
    THEN Ok(shell_env[MinOf(SdkOverrideIdx(shell_env))][2])
    ELSE Ok(home_of(shell_env) \o sdk_suffix(o))

simulator_suffix(o) ==
    CASE o = "Mac" -> "/bin/Playdate Simulator.app/Contents/MacOS/Playdate Simulator"
      [] o = "Linux" -> "/bin/PlaydateSimulator"
      [] o = "Windows" -> "\\bin\\PlaydateSimulator.exe"

get_simulator_path(shell_env, o) ==
    LET sdk_path == detect_sdk_path(shell_env, o)
    IN  IF ~sdk_path.ok THEN sdk_path
        ELSE Ok(sdk_path.val \o simulator_suffix(o))

----------------------------------------------------------------------------
(* get_request_type *)

\* a mutant: the request is trimmed before it is matched
get_request_type_trimmed(request) ==
    CASE Trim(request) = "attach" -> Ok("Attach")
      [] Trim(request) = "launch" -> Ok("Launch")
      [] OTHER -> Err("Invalid request type '" \o request
                      \o "'. Expected 'launch' or 'attach'")

get_request_type(request) ==
    CASE request = "attach" -> Ok("Attach")
      [] request = "launch" -> Ok("Launch")
      [] OTHER -> Err("Invalid request type '" \o request
                      \o "'. Expected 'launch' or 'attach'")

----------------------------------------------------------------------------
(* Host calls.  A call leaves <<function, argument>> in the log io.        *)

Called(log, fn) == \E i \in 1..Len(log) : log[i][1] = fn

NoCalls == <<>>

----------------------------------------------------------------------------
(* language_server_binary_path.  which_lls is the answer of                *)
(* worktree.which("lua-language-server"), release that of                  *)
(* latest_github_release and download that of download_file; the last two  *)
(* are read only when the code reaches the call.                           *)

os_name(o) ==
    CASE o = "Mac" -> "darwin"
      [] o = "Linux" -> "linux"
      [] o = "Windows" -> "win32"

archive_extension(o) == IF o = "Windows" THEN "zip" ELSE "tar.gz"

exe_extension(o) == IF o = "Windows" THEN ".exe" ELSE ""

asset_name(version, o, a) ==
    "lua-language-server-" \o version \o "-" \o os_name(o) \o "-"
        \o (IF a = "Aarch64" THEN "arm64" ELSE "x64") \o "." \o archive_extension(o)

\* release.assets.iter().find(|asset| asset.name == asset_name)
find_asset(assets, name) ==
    LET hits == {i \in 1..Len(assets) : assets[i].name = name}
    IN  IF hits = {} THEN None ELSE Some(assets[MinOf(hits)])

lls_binary_path(version, o) ==
    "lua-language-server-" \o version \o "/bin/lua-language-server" \o exe_extension(o)

CheckingForUpdate == <<"set_language_server_installation_status", "CheckingForUpdate">>
Downloading == <<"set_language_server_installation_status", "Downloading">>
ReleaseQuery == <<"latest_github_release", "LuaLS/lua-language-server">>

\* a mutant: the path is cached before download_file has answered
lls_install_cache_early(cache, release, download, o, a) ==
    LET name == asset_name(release.val.version, o, a)
        asset == find_asset(release.val.assets, name)
        binary_path == lls_binary_path(release.val.version, o)
    IN  IF ~release.ok
        THEN [result |-> release, cache |-> cache,
              io |-> <<CheckingForUpdate, ReleaseQuery>>]
        ELSE IF a = "X86"
        THEN [result |-> Err("unsupported platform x86"), cache |-> cache,
              io |-> <<CheckingForUpdate, ReleaseQuery>>]
        ELSE IF ~IsSome(asset)
        THEN [result |-> Err("no asset found matching \"" \o name \o "\""),
              cache |-> cache, io |-> <<CheckingForUpdate, ReleaseQuery>>]
        ELSE [result |-> IF download.ok THEN Ok(binary_path)
                         ELSE Err("failed to download file: " \o download.val),
              cache |-> Some(binary_path),
              io |-> <<CheckingForUpdate, ReleaseQuery, Downloading,
                       <<"download_file", Unwrap(asset).download_url>> >>]

\* lines 174-238: the tool is neither on PATH nor cached
lls_install(cache, release, download, o, a) ==
    LET name == asset_name(release.val.version, o, a)
        asset == find_asset(release.val.assets, name)
        binary_path == lls_binary_path(release.val.version, o)
    IN  IF ~release.ok
        THEN [result |-> release, cache |-> cache,
              io |-> <<CheckingForUpdate, ReleaseQuery>>]
        ELSE IF a = "X86"
        THEN [result |-> Err("unsupported platform x86"), cache |-> cache,
              io |-> <<CheckingForUpdate, ReleaseQuery>>]
        ELSE IF ~IsSome(asset)
        THEN [result |-> Err("no asset found matching \"" \o name \o "\""),
              cache |-> cache, io |-> <<CheckingForUpdate, ReleaseQuery>>]
        ELSE IF ~download.ok
        THEN [result |-> Err("failed to download file: " \o download.val),
              cache |-> cache,
              io |-> <<CheckingForUpdate, ReleaseQuery, Downloading,
                       <<"download_file", Unwrap(asset).download_url>> >>]
        ELSE [result |-> Ok(binary_path), cache |-> Some(binary_path),
              io |-> <<CheckingForUpdate, ReleaseQuery, Downloading,
                       <<"download_file", Unwrap(asset).download_url>> >>]

\* a mutant: the cache is consulted before the search path
language_server_binary_path_cache_first(cache, which_lls, release, download, o, a) ==
    IF IsSome(cache)
    THEN [result |-> Ok(Unwrap(cache)), cache |-> cache, io |-> NoCalls]
    ELSE IF IsSome(which_lls)
    THEN [result |-> Ok(Unwrap(which_lls)), cache |-> cache, io |-> NoCalls]
    ELSE lls_install(cache, release, download, o, a)

\* a mutant: the cache is never consulted
language_server_binary_path_no_cache(cache, which_lls, release, download, o, a) ==
    IF IsSome(which_lls)
    THEN [result |-> Ok(Unwrap(which_lls)), cache |-> cache, io |-> NoCalls]
    ELSE lls_install(cache, release, download, o, a)

language_server_binary_path(cache, which_lls, release, download, o, a) ==
    IF IsSome(which_lls)
    THEN [result |-> Ok(Unwrap(which_lls)), cache |-> cache, io |-> NoCalls]
    ELSE IF IsSome(cache)
    THEN [result |-> Ok(Unwrap(cache)), cache |-> cache, io |-> NoCalls]
    ELSE lls_install(cache, release, download, o, a)

language_server_command(cache, language_server_id, which_lls, release, download, o, a) ==
    LET path == language_server_binary_path(cache, which_lls, release, download, o, a)
    IN  IF language_server_id # LSP_SERVER_ID
        THEN [result |-> Err("Unsupported language server ID: " \o language_server_id),
              cache |-> cache, io |-> NoCalls]
        ELSE IF ~path.result.ok THEN path
        ELSE [result |-> Ok([command |-> path.result.val, args |-> <<>>, env |-> <<>>]),
              cache |-> path.cache, io |-> path.io]

----------------------------------------------------------------------------
(* playdate_luacats_path.  which_pdc is the answer of                      *)
(* worktree.which("pdc"), pdc_output that of pdc --version (its stdout   *)
(* or the error), download that of download_file and current_dir that of   *)
(* std::env::current_dir.                                                  *)

luacats_tag(sdk_version) == "v" \o sdk_version \o "-luacats1"

luacats_version_dir(sdk_version) == "playdate-luacats-" \o sdk_version \o "-luacats1"

luacats_url(sdk_version) ==
    "https://github.com/notpeter/playdate-luacats/archive/refs/tags/"
        \o luacats_tag(sdk_version) \o ".tar.gz"

\* lines 108-158: nothing is cached yet
luacats_install(cache, which_pdc, pdc_output, download, current_dir) ==
    LET sdk_version == Trim(pdc_output.val)
        run == <<"Command::output", Unwrap(which_pdc)>>
        fetch == <<"download_file", luacats_url(sdk_version)>>
        library_path ==
            PathJoin(PathJoin(current_dir.val, luacats_version_dir(sdk_version)),
                     "library")
    IN  IF ~IsSome(which_pdc)
        THEN [result |-> Err("pdc command not found in PATH"), cache |-> cache,
              io |-> NoCalls]
        ELSE IF ~pdc_output.ok
        THEN [result |-> Err("failed to run pdc --version: " \o pdc_output.val),
              cache |-> cache, io |-> <<run>>]
        ELSE IF ~download.ok
        THEN [result |-> Err("failed to download playdate-luacats tag "
                             \o luacats_tag(sdk_version) \o ": " \o download.val),
              cache |-> cache, io |-> <<run, fetch>>]
        ELSE IF ~current_dir.ok
        THEN [result |-> Err("Failed to get extension directory: " \o current_dir.val),
              cache |-> cache, io |-> <<run, fetch, <<"current_dir", "">> >>]
        ELSE [result |-> Ok(library_path), cache |-> Some(library_path),
              io |-> <<run, fetch, <<"current_dir", "">> >>]

playdate_luacats_path(cache, which_pdc, pdc_output, download, current_dir) ==
    IF IsSome(cache)
    THEN [result |-> Ok(Unwrap(cache)), cache |-> cache, io |-> NoCalls]
    ELSE luacats_install(cache, which_pdc, pdc_output, download, current_dir)

----------------------------------------------------------------------------
(* language_server_initialization_options and                              *)
(* language_server_workspace_configuration.  The JSON value is a record;   *)
(* of the constant settings the model keeps those in which the two         *)
(* payloads differ.                                                        *)

language_server_initialization_options(language_server_id) ==
    IF language_server_id # LSP_SERVER_ID THEN Ok(None)
    ELSE Ok(Some([diagnostics |-> [severity |-> "duplicate-set-field:Hint,unknown-symbol:Warning",
                                   disable |-> <<>>],
                  workspace |-> [library |-> <<>>, checkThirdParty |-> FALSE]]))

\* a mutant: the type definitions are listed before the SDK's CoreLibs
library_paths_luacats_first(sdk_path, luacats_path) ==
    <<luacats_path>> \o (IF sdk_path.ok THEN <<sdk_path.val \o "/CoreLibs">> ELSE <<>>)

\* lines 357-371
library_paths(sdk_path, luacats_path) ==
    (IF sdk_path.ok THEN <<sdk_path.val \o "/CoreLibs">> ELSE <<>>) \o <<luacats_path>>

language_server_workspace_configuration(cache, language_server_id, shell_env, which_pdc, pdc_output, download, current_dir, o) ==
    LET sdk_path == detect_sdk_path(shell_env, o)
        luacats == playdate_luacats_path(cache, which_pdc, pdc_output, download,
                                         current_dir)
    IN  IF language_server_id # LSP_SERVER_ID
        THEN [result |-> Ok(None), cache |-> cache, io |-> NoCalls]
        ELSE IF ~luacats.result.ok THEN luacats
        ELSE [result |-> Ok(Some(
                  [diagnostics |-> [severity |-> "unknown-symbol:Hint",
                                    disable |-> <<"duplicate-set-field">>],
                   workspace |-> [library |-> library_paths(sdk_path, luacats.result.val),
                                  checkThirdParty |-> FALSE]])),
              cache |-> luacats.cache, io |-> luacats.io]

----------------------------------------------------------------------------
(* PlaydateDebugConfig and its JSON form.  A JSON object is a record of    *)
(* the four keys, each absent, null, a number or a string.                 *)

Absent == <<"absent">>
JNull == <<"null">>
JNum == <<"number">>
JStr(s) == <<"string", s>>
IsJStr(j) == j[1] = "string"

WORKTREE_ROOT_TOKEN == "$ZED_WORKTREE_ROOT"

default_game_path == Some(WORKTREE_ROOT_TOKEN \o "/builds/Game.pdx")

default_source_path == Some(WORKTREE_ROOT_TOKEN \o "/source")

\* an Option<String> field with a serde default
optional_field(j, default) ==
    CASE j = Absent -> default
      [] j = JNull -> None
      [] OTHER -> Some(j[2])

\* serde_json::from_str / from_value into PlaydateDebugConfig
parse_debug_config(json) ==
    IF json.request = Absent
    THEN Err("Failed to parse debug configuration: missing field request")
    ELSE IF ~IsJStr(json.request) \/ JNum \in {json.gamePath, json.sourcePath, json.sdkPath}
    THEN Err("Failed to parse debug configuration: invalid type")
    ELSE Ok([request |-> json.request[2],
             game_path |-> optional_field(json.gamePath, default_game_path),
             source_path |-> optional_field(json.sourcePath, default_source_path),
             sdk_path |-> optional_field(json.sdkPath, None)])

\* skip_serializing_if = "Option::is_none"
serialize_field(o) == IF IsSome(o) THEN JStr(Unwrap(o)) ELSE Absent

\* serde_json::to_string(&debug_config)
serialize_debug_config(cfg) ==
    [request |-> JStr(cfg.request),
     gamePath |-> serialize_field(cfg.game_path),
     sourcePath |-> serialize_field(cfg.source_path),
     sdkPath |-> serialize_field(cfg.sdk_path)]

substitute_root(o, root_path) ==
    IF IsSome(o) THEN Some(Replace(Unwrap(o), WORKTREE_ROOT_TOKEN, root_path)) ELSE None

DEFAULT_HOST == 2130706433
DEFAULT_PORT == 55934
DEFAULT_TIMEOUT == 5000

unwrap_or(o, default) == IF IsSome(o) THEN Unwrap(o) ELSE default

\* lines 435-443
connection_params(tcp_connection) ==
    IF IsSome(tcp_connection)
    THEN [host |-> unwrap_or(Unwrap(tcp_connection).host, DEFAULT_HOST),
          port |-> unwrap_or(Unwrap(tcp_connection).port, DEFAULT_PORT),
          timeout |-> Some(unwrap_or(Unwrap(tcp_connection).timeout, DEFAULT_TIMEOUT))]
    ELSE [host |-> DEFAULT_HOST, port |-> DEFAULT_PORT, timeout |-> Some(DEFAULT_TIMEOUT)]

\* lines 411-429: the parsed configuration with sdk_path filled in and the
\* placeholders substituted
resolve_debug_config(cfg, shell_env, root_path, o) ==
    LET detected == detect_sdk_path(shell_env, o)
    IN  IF ~IsSome(cfg.sdk_path) /\ ~detected.ok THEN detected
        ELSE Ok([request |-> cfg.request,
                 game_path |-> substitute_root(cfg.game_path, root_path),
                 source_path |-> substitute_root(cfg.source_path, root_path),
                 sdk_path |-> IF IsSome(cfg.sdk_path) THEN cfg.sdk_path
                              ELSE Some(detected.val)])

\* a mutant: a launch without game_path starts the simulator with no argument
launch_command_without_game(request, debug_config, shell_env, o) ==
    LET simulator_path == get_simulator_path(shell_env, o)
    IN  IF request # "Launch"
        THEN Ok([command |-> None, arguments |-> <<>>, cwd |-> None])
        ELSE IF ~simulator_path.ok THEN simulator_path
        ELSE Ok([command |-> Some(simulator_path.val),
                 arguments |-> IF IsSome(debug_config.game_path)
                               THEN <<Unwrap(debug_config.game_path)>> ELSE <<>>,
                 cwd |-> None])

\* lines 445-465: (command, arguments, cwd)
launch_command(request, debug_config, shell_env, o) ==
    LET simulator_path == get_simulator_path(shell_env, o)
    IN  IF request # "Launch"
        THEN Ok([command |-> None, arguments |-> <<>>, cwd |-> None])
        ELSE IF ~simulator_path.ok THEN simulator_path
        ELSE IF ~IsSome(debug_config.game_path)
        THEN Err("No game_path specified in launch configuration")
        ELSE Ok([command |-> Some(simulator_path.val),
                 arguments |-> <<Unwrap(debug_config.game_path)>>,
                 cwd |-> None])

get_dap_binary(adapter_name, config, tcp_connection, shell_env, root_path, o) ==
    LET parsed == parse_debug_config(config)
        debug_config == resolve_debug_config(parsed.val, shell_env, root_path, o)
        request == get_request_type(debug_config.val.request)
        command == launch_command(request.val, debug_config.val, shell_env, o)
    IN  IF adapter_name # ADAPTER_NAME
        THEN Err("Unsupported adapter name: " \o adapter_name)
        ELSE IF ~parsed.ok THEN parsed
        ELSE IF ~debug_config.ok THEN debug_config
        ELSE IF ~request.ok THEN request
        ELSE IF ~command.ok THEN command
        ELSE Ok([command |-> command.val.command,
                 arguments |-> command.val.arguments,
                 envs |-> <<>>,
                 cwd |-> command.val.cwd,
                 connection |-> Some(connection_params(tcp_connection)),
                 request_args |->
                     [configuration |-> serialize_debug_config(debug_config.val),
                      request |-> request.val]])

dap_request_kind(adapter_name, config) ==
    LET parsed == parse_debug_config(config)
    IN  IF adapter_name # ADAPTER_NAME
        THEN Err("Unsupported adapter name: " \o adapter_name)
        ELSE IF ~parsed.ok THEN parsed
        ELSE get_request_type(parsed.val.request)

----------------------------------------------------------------------------
(* What the host and the outside world can hand to the extension.          *)

MaxEnvLen == 2      \* longest shell_env list drawn for detect_sdk_path
MaxDownloads == 2   \* download_file calls of the language server that are followed

SeqsUpTo(S, n) == UNION {[1..k -> S] : k \in 0..n}

EnvKeys == {"PLAYDATE_SDK_PATH", "HOME", "USERPROFILE", "PATH"}
EnvValues == {"", "/home/u", "C:\\Users\\u"}
EnvLists == SeqsUpTo(EnvKeys \X EnvValues, MaxEnvLen)

\* the environments of the worktrees the stateful entry points are called with
WorktreeEnvs ==
    {<<>>,
     <<<<"HOME", "/home/u">>>>,
     <<<<"PLAYDATE_SDK_PATH", "/opt/PlaydateSDK">>, <<"HOME", "/home/u">>>>}

ServerIds == {LSP_SERVER_ID, "lua-language-server"}
AdapterNames == {ADAPTER_NAME, "CodeLLDB"}

WhichLls == {None, Some("/usr/local/bin/lua-language-server")}
WhichPdc == {None, Some("/opt/PlaydateSDK/bin/pdc")}

Versions == {"3.15.0", "3.16.0"}

\* the platforms a release carries an archive for
AssetPlatforms ==
    <<<<"Mac", "Aarch64">>, <<"Mac", "X8664">>, <<"Linux", "Aarch64">>,
      <<"Linux", "X8664">>, <<"Windows", "X8664">>>>

AssetsOf(version) ==
    [i \in DOMAIN AssetPlatforms |->
        LET name == asset_name(version, AssetPlatforms[i][1], AssetPlatforms[i][2])
        IN  [name |-> name, download_url |-> "https://github.com/LuaLS/dl/" \o name]]

Releases ==
    {Err("no release found")}
        \cup {Ok([version |-> v, assets |-> AssetsOf(v)]) : v \in Versions}

DownloadResults == {Ok(""), Err("connection reset")}
PdcOutputs == {Err("permission denied"), Ok("2.5.0\n"), Ok(" 2.6.1 ")}
CurrentDirs == {Ok("/work"), Err("no current directory")}

RequestStrings ==
    {"launch", "attach", "", "Launch", "ATTACH", " launch", "attach ", "bogus",
     "launcher"}

DapConfigs ==
    [request : {Absent, JNull, JNum} \cup {JStr(r) : r \in RequestStrings},
     gamePath : {Absent, JNull, JNum,
                 JStr(WORKTREE_ROOT_TOKEN \o "/out/" \o WORKTREE_ROOT_TOKEN \o ".pdx")},
     sourcePath : {Absent, JStr("src")},
     sdkPath : {Absent, JNull, JStr("/custom/sdk")}]

TcpConnections ==
    {None,
     Some([host |-> None, port |-> Some(9000), timeout |-> None]),
     Some([host |-> Some(167772161), port |-> None, timeout |-> Some(100)])}

RootPaths == {"/proj", "C:\\proj"}

DapInputs ==
    [adapter_name : AdapterNames, config : DapConfigs, tcp_connection : TcpConnections,
     shell_env : WorktreeEnvs, root_path : RootPaths]

KindInputs == [adapter_name : AdapterNames, config : DapConfigs]

\* the debug requests interleaved with the language-server entry points
DapSample ==
    {i \in DapInputs :
        /\ i.adapter_name = ADAPTER_NAME
        /\ i.config.request \in {JStr("launch"), JStr("bogus")}
        /\ i.config.gamePath = Absent /\ i.config.sourcePath = Absent
        /\ i.config.sdkPath = Absent
        /\ i.tcp_connection = None /\ i.shell_env = <<>> /\ i.root_path = "/proj"}

KindSample ==
    {i \in KindInputs :
        /\ i.adapter_name = ADAPTER_NAME
        /\ i.config.request \in {JStr("attach"), JStr("bogus")}
        /\ i.config.gamePath = Absent /\ i.config.sourcePath = Absent
        /\ i.config.sdkPath = Absent}

----------------------------------------------------------------------------
(* The extension instance: PlaydateExtension::default() on some platform.  *)

Init ==
    /\ os \in OsSet
    /\ arch \in ArchSet
    /\ cached_binary_path = None
    /\ cached_luacats_path = None
    /\ op = "new"
    /\ args = <<>>
    /\ result = Ok("")
    /\ io = NoCalls
    /\ lls_downloads = <<>>
    /\ first_ok = None
    /\ first_resolved = None

Platform == <<os, arch>>
Caches == <<cached_binary_path, cached_luacats_path>>
Observed == <<lls_downloads, first_ok, first_resolved>>

\* the outcomes of the download_file calls in a log
DownloadsIn(log, download) == IF Called(log, "download_file") THEN <<download.ok>> ELSE <<>>

LanguageServerCommand ==
    \E id \in ServerIds, which_lls \in WhichLls, release \in Releases,
       download \in DownloadResults :
        LET r == language_server_command(cached_binary_path, id, which_lls, release,
                                         download, os, arch)
        IN  /\ Len(lls_downloads \o DownloadsIn(r.io, download)) <= MaxDownloads
            /\ cached_binary_path' = r.cache
            /\ op' = "language_server_command"
            /\ args' = [language_server_id |-> id, which_lls |-> which_lls]
            /\ result' = r.result
            /\ io' = r.io
            /\ lls_downloads' = lls_downloads \o DownloadsIn(r.io, download)
            /\ first_ok' = IF r.result.ok /\ ~IsSome(first_ok)
                           THEN Some(r.result.val.command) ELSE first_ok
            /\ first_resolved' = IF r.result.ok /\ ~IsSome(which_lls) /\ ~IsSome(first_resolved)
                                 THEN Some(r.result.val.command) ELSE first_resolved
            /\ UNCHANGED <<Platform, cached_luacats_path>>

LanguageServerInitializationOptions ==
    \E id \in ServerIds :
        /\ op' = "language_server_initialization_options"
        /\ args' = [language_server_id |-> id]
        /\ result' = language_server_initialization_options(id)
        /\ io' = NoCalls
        /\ UNCHANGED <<Platform, Caches, Observed>>

LanguageServerWorkspaceConfiguration ==
    \E id \in ServerIds, shell_env \in WorktreeEnvs, which_pdc \in WhichPdc,
       pdc_output \in PdcOutputs, download \in DownloadResults,
       current_dir \in CurrentDirs :
        LET r == language_server_workspace_configuration(
                     cached_luacats_path, id, shell_env, which_pdc, pdc_output,
                     download, current_dir, os)
        IN  /\ cached_luacats_path' = r.cache
            /\ op' = "language_server_workspace_configuration"
            /\ args' = [language_server_id |-> id, shell_env |-> shell_env]
            /\ result' = r.result
            /\ io' = r.io
            /\ UNCHANGED <<Platform, cached_binary_path, Observed>>

GetDapBinary(inputs) ==
    \E i \in inputs :
        /\ op' = "get_dap_binary"
        /\ args' = i
        /\ result' = get_dap_binary(i.adapter_name, i.config, i.tcp_connection,
                                    i.shell_env, i.root_path, os)
        /\ io' = NoCalls
        /\ UNCHANGED <<Platform, Caches, Observed>>

DapRequestKind(inputs) ==
    \E i \in inputs :
        /\ op' = "dap_request_kind"
        /\ args' = i
        /\ result' = dap_request_kind(i.adapter_name, i.config)
        /\ io' = NoCalls
        /\ UNCHANGED <<Platform, Caches, Observed>>

DetectSdkPath ==
    \E shell_env \in EnvLists :
        /\ op' = "detect_sdk_path"
        /\ args' = [shell_env |-> shell_env]
        /\ result' = detect_sdk_path(shell_env, os)
        /\ io' = NoCalls
        /\ UNCHANGED <<Platform, Caches, Observed>>

\* The host calls the entry points one at a time, in any order.
Next ==
    \/ LanguageServerCommand
    \/ LanguageServerInitializationOptions
    \/ LanguageServerWorkspaceConfiguration
    \/ GetDapBinary(DapSample)
    \/ DapRequestKind(KindSample)

Spec == Init /\ [][Next]_vars

\* One debug request on a fresh instance, over every configuration drawn.
FirstGetDapBinary == op = "new" /\ GetDapBinary(DapInputs)
FirstDapRequestKind == op = "new" /\ DapRequestKind(KindInputs)

NextDap == FirstGetDapBinary \/ FirstDapRequestKind

SpecDap == Init /\ [][NextDap]_vars

\* One SDK detection on a fresh instance, over every environment list drawn.
FirstDetectSdkPath == op = "new" /\ DetectSdkPath

SpecSdk == Init /\ [][FirstDetectSdkPath]_vars

----------------------------------------------------------------------------
(* Properties *)

IsLsCommand == op = "language_server_command" /\ args.language_server_id = LSP_SERVER_ID
IsWsConfig ==
    op = "language_server_workspace_configuration"
        /\ args.language_server_id = LSP_SERVER_ID
IsDapBinary == op = "get_dap_binary"
IsDapKind == op = "dap_request_kind"

\* C1: with the tool not on the search path, nothing cached and the
\* architecture X86, the call fails with the unsupported-platform error and has
\* made neither a release query nor a download by then.
C1_UnsupportedBeforeNetwork ==
    (IsLsCommand /\ ~IsSome(args.which_lls) /\ ~IsSome(cached_binary_path) /\ arch = "X86")
        => /\ result = Err("unsupported platform x86")
           /\ ~Called(io, "latest_github_release")
           /\ ~Called(io, "download_file")

\* C2 as stated: every successful call returns the path the first successful
\* call returned, and download_file is called at most once for the tool.
C2_SamePathOneDownload ==
    /\ (IsLsCommand /\ result.ok) => result.val.command = Unwrap(first_ok)
    /\ Len(lls_downloads) <= 1

\* C2 amended: every successful call that did not find the tool on the search
\* path returns the path the first such call returned, and no download_file
\* call follows one that succeeded.
C2_ResolvedPathReused ==
    /\ (IsLsCommand /\ result.ok /\ ~IsSome(args.which_lls))
           => result.val.command = Unwrap(first_resolved)
    /\ \A i \in 1..Len(lls_downloads) : lls_downloads[i] => i = Len(lls_downloads)

\* a later successful call answered from the cache, after a failed and a
\* successful download and a first answer taken from the search path
C2_Witness ==
    /\ IsLsCommand /\ result.ok /\ ~IsSome(args.which_lls) /\ io = NoCalls
    /\ lls_downloads = <<FALSE, TRUE>>
    /\ first_ok # first_resolved

\* C3: when which finds the tool, the call returns that path, makes no host
\* call (status, release query, download) and leaves cached_binary_path as it
\* was, whatever it held.
C3_SearchPathBypass ==
    [][(op' = "language_server_command" /\ args'.language_server_id = LSP_SERVER_ID
            /\ IsSome(args'.which_lls))
        => /\ result' = Ok([command |-> Unwrap(args'.which_lls), args |-> <<>>,
                            env |-> <<>>])
           /\ io' = NoCalls
           /\ cached_binary_path' = cached_binary_path]_vars

\* the tool is on the search path while another path is cached
C3_Witness ==
    /\ IsLsCommand /\ IsSome(args.which_lls) /\ result.ok
    /\ IsSome(cached_binary_path)
    /\ result.val.command # Unwrap(cached_binary_path)

\* C4: once a cache holds a path, every step keeps that path in it.
C4_WriteOnce ==
    [][/\ IsSome(cached_binary_path) => cached_binary_path' = cached_binary_path
       /\ IsSome(cached_luacats_path) => cached_luacats_path' = cached_luacats_path]_vars

\* both caches are filled and a later call was answered from the first
C4_Witness ==
    /\ IsSome(cached_binary_path) /\ IsSome(cached_luacats_path)
    /\ IsLsCommand /\ result.ok /\ ~IsSome(args.which_lls) /\ io = NoCalls

RequestOf(config) == config.request[2]
ParsesOk(config) == parse_debug_config(config).ok

\* C5: exactly "launch" and "attach" are accepted, as Launch and Attach; any
\* other request string is an error whose message contains that string.
C5_RequestClassification ==
    /\ (IsDapKind /\ args.adapter_name = ADAPTER_NAME /\ ParsesOk(args.config))
           => LET r == RequestOf(args.config)
              IN  /\ r = "launch" => result = Ok("Launch")
                  /\ r = "attach" => result = Ok("Attach")
                  /\ r \notin {"launch", "attach"}
                         => ~result.ok /\ Contains(result.val, r)
    /\ (IsDapBinary /\ args.adapter_name = ADAPTER_NAME /\ ParsesOk(args.config))
           => LET r == RequestOf(args.config)
              IN  /\ (r = "launch" /\ result.ok)
                         => result.val.request_args.request = "Launch"
                  /\ (r = "attach" /\ result.ok)
                         => result.val.request_args.request = "Attach"
                  /\ r \notin {"launch", "attach"}
                         => ~result.ok /\ Contains(result.val, r)

\* a request that differs from "attach" only by a trailing blank is rejected
C5_Witness ==
    /\ IsDapKind /\ args.adapter_name = ADAPTER_NAME /\ ParsesOk(args.config)
    /\ RequestOf(args.config) = "attach "
    /\ ~result.ok /\ Contains(result.val, "'attach '")

\* C6: a launch result has the simulator path as command, the resolved
\* gamePath as its only argument and no cwd; a launch with a null gamePath is an
\* error; an attach result has no command and no arguments, only a connection.
C6_CommandShape ==
    /\ (IsDapBinary /\ result.ok /\ result.val.request_args.request = "Launch")
           => /\ result.val.command = Some(get_simulator_path(args.shell_env, os).val)
              /\ IsJStr(result.val.request_args.configuration.gamePath)
              /\ result.val.arguments
                     = <<result.val.request_args.configuration.gamePath[2]>>
              /\ ~Contains(result.val.arguments[1], WORKTREE_ROOT_TOKEN)
              /\ result.val.cwd = None
    /\ (IsDapBinary /\ args.adapter_name = ADAPTER_NAME /\ ParsesOk(args.config)
            /\ RequestOf(args.config) = "launch" /\ args.config.gamePath = JNull)
           => ~result.ok
    /\ (IsDapBinary /\ result.ok /\ result.val.request_args.request = "Attach")
           => /\ result.val.command = None
              /\ result.val.arguments = <<>>
              /\ result.val.cwd = None
              /\ IsSome(result.val.connection)

\* a launch with a gamePath of its own, the placeholder in it twice
C6_Witness ==
    /\ IsDapBinary /\ result.ok /\ result.val.request_args.request = "Launch"
    /\ args.config.gamePath # Absent
    /\ result.val.arguments = <<"/proj/out//proj.pdx">>

\* C7: the live configuration fails exactly when no type-definition path could
\* be resolved, and on success workspace.library is the CoreLibs directory of
\* the SDK path detected in this call followed by the type-definition path.
C7_WorkspaceLibrary ==
    IsWsConfig
        => /\ result.ok <=> IsSome(cached_luacats_path)
           /\ result.ok
                  => Unwrap(result.val).workspace.library
                         = <<detect_sdk_path(args.shell_env, os).val \o "/CoreLibs",
                             Unwrap(cached_luacats_path)>>

\* a call answered with the cached type definitions and the SDK path of its
\* own worktree
C7_Witness ==
    /\ IsWsConfig /\ result.ok /\ io = NoCalls
    /\ Unwrap(result.val).workspace.library
           = <<"/opt/PlaydateSDK/CoreLibs",
               "/work/playdate-luacats-2.5.0-luacats1/library">>

\* the value of the home-directory variable the platform names
HomeVariable(o) == IF o = "Windows" THEN "USERPROFILE" ELSE "HOME"

HasVariable(shell_env, key) == \E i \in 1..Len(shell_env) : shell_env[i][1] = key

ValueOf(shell_env, key) ==
    shell_env[MinOf({i \in 1..Len(shell_env) : shell_env[i][1] = key})][2]

\* C8: without a non-empty PLAYDATE_SDK_PATH the result is the value of HOME
\* (Mac, Linux) or USERPROFILE (Windows) followed by the platform's suffix; a
\* non-empty PLAYDATE_SDK_PATH is returned as it is.
C8_HomeVariableByPlatform ==
    op = "detect_sdk_path"
        => /\ (SdkOverrideIdx(args.shell_env) = {}
                   /\ HasVariable(args.shell_env, HomeVariable(os)))
                  => result = Ok(ValueOf(args.shell_env, HomeVariable(os))
                                 \o sdk_suffix(os))
           /\ SdkOverrideIdx(args.shell_env) # {}
                  => result = Ok(args.shell_env[MinOf(SdkOverrideIdx(args.shell_env))][2])

\* C9: the command of a launch result is the sdkPath of the produced
\* configuration followed by the platform's simulator suffix.
C9_CommandFromReportedSdk ==
    (IsDapBinary /\ result.ok /\ result.val.request_args.request = "Launch")
        => result.val.command
               = Some(result.val.request_args.configuration.sdkPath[2]
                      \o simulator_suffix(os))

\* C10: a call that returns an error leaves both caches as they were, and a
\* cache changes only in a call that returns that very path.
C10_FailureKeepsCaches ==
    [][/\ ~result'.ok => Caches' = Caches
       /\ cached_binary_path' # cached_binary_path
              => /\ op' = "language_server_command" /\ result'.ok
                 /\ cached_binary_path' = Some(result'.val.command)
       /\ cached_luacats_path' # cached_luacats_path
              => /\ op' = "language_server_workspace_configuration" /\ result'.ok
                 /\ cached_luacats_path'
                        = Some(Unwrap(result'.val).workspace.library[
                                   Len(Unwrap(result'.val).workspace.library)])]_vars

\* a download of the language server failed and nothing is cached
C10_Witness ==
    /\ IsLsCommand /\ ~result.ok /\ Called(io, "download_file")
    /\ ~IsSome(cached_binary_path)

====
